---- MODULE Spec2Model ----
(***************************************************************************)
(* Model of the website cloner, src/modules/web_cloner.py (class           *)
(* WebCloner): one clone_website run over a small web site, with the HTTP  *)
(* server and the file system as the nondeterministic environment.         *)
(*                                                                         *)
(* Text is modelled as sequences of one-character strings.  A reference    *)
(* as written in a document, and a URL, is a record                        *)
(*     [kind, host, dirs, file]                                            *)
(* kind "abs"  : http(s)://host/dirs.../file                               *)
(* kind "root" : /dirs.../file           (path-absolute reference)         *)
(* kind "rel"  : dirs.../file            (relative reference)              *)
(* kind "data" : data:dirs.../file       (inline data: URI)                *)
(* A local path is a record [dir, name] below the site output directory.   *)
(***************************************************************************)
EXTENDS Integers, Sequences, FiniteSets, TLC

\* ------------------------------------------------------------------------
\* Program constants
\* ------------------------------------------------------------------------
max_retries == 3

MaxNameLen == 200

BackoffSecs == 1

\* ------------------------------------------------------------------------
\* Bounds of the model
\* ------------------------------------------------------------------------
\* number of attempts (directory creations, requests, file writes, CSS
\* reads) the environment may make fail in one run
MaxFaults == 6

\* calls of clone_website on one WebCloner
MaxRuns == 2

MaxDnsCalls == 2

\* url() entries of a stylesheet given to update_css_paths
MaxCssRefs == 2

\* longest stem and longest extension of the names given to sanitize_filename
MaxStem == 300

MaxExt == 250

\* ------------------------------------------------------------------------
\* State
\* ------------------------------------------------------------------------
VARIABLES
    pc,                \* position in clone_website
    site_dir,          \* TRUE once site_output_dir exists
    soup,              \* the parsed root document (rewritten in place)
    assets,            \* result of extract_assets_from_html
    total_assets,
    css_idx,           \* position of the CSS loop in assets.css
    js_idx,            \* position of the JS loop in assets.js
    img_todo,          \* URLs the image loop has not visited yet
    css_assets,        \* URLs found in the downloaded stylesheets
    downloaded_files,  \* WebCloner.downloaded_files
    failed_downloads,  \* WebCloner.failed_downloads
    fs,                \* files below site_output_dir: path -> body
    dl,                \* the current (or last) download_file call
    result,            \* return value of clone_website
    info,              \* content of clone_info.md
    faults,            \* failures the environment has injected so far
    hist,              \* history: requests, calls and saves per URL
    san,               \* a call of sanitize_filename: its argument and its result
    pm,                \* a call of url_to_local_path on a URL given as text
    cu,                \* calls of update_css_paths on the text of a stylesheet
    dns                \* a call of DNSChecker.resolve_with_retry

\* the state of the cloner and of its environment
cloner == <<pc, site_dir, soup, assets, total_assets, css_idx, js_idx, img_todo, css_assets,
            downloaded_files, failed_downloads, fs, dl, result, info, faults, hist>>

vars == <<pc, site_dir, soup, assets, total_assets, css_idx, js_idx, img_todo, css_assets,
          downloaded_files, failed_downloads, fs, dl, result, info, faults, hist, san,
          pm, cu, dns>>

\* the calls made apart from a run of clone_website
calls == <<san, pm, cu, dns>>

\* ------------------------------------------------------------------------
\* Text helpers
\* ------------------------------------------------------------------------
Put(f, k, v) == [x \in DOMAIN f \cup {k} |-> IF x = k THEN v ELSE f[x]]

Take(s, k) == IF k <= 0 THEN << >> ELSE SubSeq(s, 1, IF k < Len(s) THEN k ELSE Len(s))

Drop(s, k) == IF k >= Len(s) THEN << >> ELSE SubSeq(s, k + 1, Len(s))

\* Python slice s[:k], k possibly negative
SliceTo(s, k) == IF k >= 0 THEN Take(s, k) ELSE Take(s, Len(s) + k)

EndsWith(s, suf) ==
    /\ Len(s) >= Len(suf)
    /\ SubSeq(s, Len(s) - Len(suf) + 1, Len(s)) = suf

HasDot(s) == \E i \in DOMAIN s : s[i] = "."

MapSeq(s, F(_)) == [i \in DOMAIN s |-> F(s[i])]

SeqRange(s) == {s[i] : i \in DOMAIN s}

\* urllib.parse.unquote, for the one escape of the modelled alphabet (%20)
RECURSIVE unquote(_)
unquote(s) ==
    IF s = << >> THEN << >>
    ELSE IF Len(s) >= 3 /\ SubSeq(s, 1, 3) = <<"%", "2", "0">>
         THEN <<" ">> \o unquote(Drop(s, 3))
         ELSE <<s[1]>> \o unquote(Drop(s, 1))

\* os.path.splitext of a name without directory separators
LastDot(s) == IF HasDot(s) THEN CHOOSE i \in DOMAIN s : s[i] = "." /\ \A j \in DOMAIN s : j > i => s[j] # "."
              ELSE 0

splitext(s) ==
    LET d == LastDot(s) IN
    IF d > 0 /\ \E j \in 1..(d - 1) : s[j] # "."
    THEN <<Take(s, d - 1), Drop(s, d - 1)>>
    ELSE <<s, << >> >>

UnsafeChars == {"<", ">", ":", "\"", "/", "\\", "|", "?", "*"}

StripChars == {".", " "}

\* str.strip('. ')
RECURSIVE lstrip(_)
lstrip(s) == IF s # << >> /\ s[1] \in StripChars THEN lstrip(Drop(s, 1)) ELSE s

RECURSIVE rstrip(_)
rstrip(s) == IF s # << >> /\ s[Len(s)] \in StripChars THEN rstrip(Take(s, Len(s) - 1)) ELSE s

strip(s) == rstrip(lstrip(s))

sanitize_filename(filename) ==
    LET subbed == [i \in DOMAIN filename |-> IF filename[i] \in UnsafeChars THEN "_" ELSE filename[i]]
        stripped == strip(subbed)
        cut == IF Len(stripped) > MaxNameLen
               THEN LET ne == splitext(stripped)
                    IN  SliceTo(ne[1], MaxNameLen - Len(ne[2])) \o ne[2]
               ELSE stripped
    IN  IF cut = << >> THEN <<"u","n","n","a","m","e","d","_","f","i","l","e">> ELSE cut

\* get_file_extension(url) without a content type: the extension of the
\* percent-decoded basename, or nothing
get_file_extension(url) ==
    LET base == unquote(url.file) IN
    IF HasDot(base) THEN splitext(base)[2] ELSE << >>

CssExts == { <<".","c","s","s">> }

JsExts == { <<".","j","s">>, <<".","j","s","x">>, <<".","t","s">>, <<".","t","s","x">> }

ImageExts == { <<".","j","p","g">>, <<".","j","p","e","g">>, <<".","p","n","g">>,
               <<".","g","i","f">>, <<".","s","v","g">>, <<".","w","e","b","p">>,
               <<".","i","c","o">> }

FontExts == { <<".","w","o","f","f">>, <<".","w","o","f","f","2">>, <<".","t","t","f">>,
              <<".","e","o","t">>, <<".","o","t","f">> }

EndsWithAny(s, sufs) == \E suf \in sufs : EndsWith(s, suf)

subdir_of(path) ==
    IF EndsWithAny(path, CssExts) THEN "css"
    ELSE IF EndsWithAny(path, JsExts) THEN "js"
    ELSE IF EndsWithAny(path, ImageExts) THEN "images"
    ELSE IF EndsWithAny(path, FontExts) THEN "fonts"
    ELSE "assets"

\* url_to_local_path(url, site_output_dir), as a path below site_output_dir,
\* computed from the URL
path_of_url(url) ==
    LET path == unquote(url.file)
        base == IF path = << >> THEN <<"i","n","d","e","x",".","h","t","m","l">> ELSE path
        safe == sanitize_filename(base)
        name == IF HasDot(safe) THEN safe ELSE safe \o get_file_extension(url)
    IN  [dir |-> <<subdir_of(path)>>, name |-> name]

\* ------------------------------------------------------------------------
\* URLs and references
\* ------------------------------------------------------------------------
RECURSIVE remove_dot_segments(_)
remove_dot_segments(ds) ==
    IF ds = << >> THEN << >>
    ELSE LET front == remove_dot_segments(Take(ds, Len(ds) - 1))
             last == ds[Len(ds)]
         IN  IF last = ".." THEN Take(front, Len(front) - 1)
             ELSE IF last = "." THEN front
             ELSE Append(front, last)

urljoin(base, ref) ==
    CASE ref.kind \in {"abs", "data"} -> ref
      [] ref.kind = "root" -> [kind |-> "abs", host |-> base.host,
                               dirs |-> remove_dot_segments(ref.dirs), file |-> ref.file]
      [] OTHER -> [kind |-> "abs", host |-> base.host,
                   dirs |-> remove_dot_segments(base.dirs \o ref.dirs), file |-> ref.file]

\* os.path.relpath(local_path, output_dir) with forward slashes, as a reference
relpath_from_output_dir(p) == [kind |-> "rel", host |-> "", dirs |-> p.dir, file |-> p.name]

\* what a browser opens for reference ref found in a document stored in
\* directory docdir of the site tree
ResolveLocal(docdir, ref) == [dir |-> remove_dot_segments(docdir \o ref.dirs), name |-> ref.file]

\* ------------------------------------------------------------------------
\* The web site served to the cloner (the environment)
\* ------------------------------------------------------------------------
Url(host, dirs, file) == [kind |-> "abs", host |-> host, dirs |-> dirs, file |-> file]

RootRef(dirs, file) == [kind |-> "root", host |-> "", dirs |-> dirs, file |-> file]

RelRef(dirs, file) == [kind |-> "rel", host |-> "", dirs |-> dirs, file |-> file]

DataRef == [kind |-> "data", host |-> "", dirs |-> <<"image">>, file |-> <<"p","n","g",";","x">>]

RootUrl == Url("ex.com", << >>, << >>)

SCss == <<"s",".","c","s","s">>

TCss == <<"t",".","c","s","s">>

BgJpg == <<"b","g",".","j","p","g">>

APng == <<"a",".","p","n","g">>

BPng == <<"b",".","p","n","g">>

CPng == <<"c",".","p","n","g">>

AppJs == <<"a","p","p",".","j","s">>

FWoff == <<"f",".","w","o","f","f">>

ICss == <<"i",".","c","s","s">>

NCss == <<"n",".","c","s","s">>

DPng == <<"d",".","p","n","g">>

XCss == <<"x",".","c","s","s">>

MCss == <<"m",".","c","s","s">>

OCss == <<"o",".","c","s","s">>

EmptySoup == [css |-> << >>, js |-> << >>, img |-> << >>, bg |-> << >>, icon |-> << >>]

\* <link rel=stylesheet href=/s.css> <img src=https://ex.com/a.png>
PageScenario == [EmptySoup EXCEPT !.css = <<RootRef(<< >>, SCss)>>,
                                  !.img = <<Url("ex.com", << >>, APng)>>]

\* the same stylesheet linked twice, and an inline background-image
PageDupCss == [EmptySoup EXCEPT !.css = <<RootRef(<< >>, SCss), RootRef(<< >>, SCss)>>,
                                !.bg = <<RootRef(<< >>, BgJpg)>>]

\* three images
PageImages == [EmptySoup EXCEPT !.img = <<RootRef(<< >>, APng), RootRef(<< >>, BPng),
                                          RootRef(<< >>, CPng)>>]

\* the same script included twice, an icon that is also an image
PageDupJs == [EmptySoup EXCEPT !.js = <<RootRef(<< >>, AppJs), RootRef(<< >>, AppJs)>>,
                               !.img = <<RootRef(<< >>, APng)>>,
                               !.icon = <<RootRef(<< >>, APng)>>]

\* a stylesheet in a subdirectory with a relative, an absolute and a data: url()
PageFonts == [EmptySoup EXCEPT !.css = <<RootRef(<<"static">>, TCss)>>]

\* a stylesheet that names a second stylesheet in url(), which names an image
PageImport == [EmptySoup EXCEPT !.css = <<RootRef(<< >>, ICss)>>]

\* a stylesheet whose url() points at itself
PageSelf == [EmptySoup EXCEPT !.css = <<RootRef(<< >>, XCss)>>]

\* two stylesheets that reference each other
PageMutual == [EmptySoup EXCEPT !.css = <<RootRef(<< >>, MCss), RootRef(<< >>, OCss)>>]

\* a data: URI as <img src>, as inline background-image and as icon, next to
\* an image of the site
PageData == [EmptySoup EXCEPT !.img = <<DataRef, RootRef(<< >>, APng)>>,
                              !.bg = <<DataRef>>,
                              !.icon = <<DataRef>>]

Pages == {PageScenario, PageDupCss, PageImages, PageDupJs, PageFonts,
          PageImport, PageSelf, PageMutual, PageData}

SCssUrl == Url("ex.com", << >>, SCss)

TCssUrl == Url("ex.com", <<"static">>, TCss)

ICssUrl == Url("ex.com", << >>, ICss)

NCssUrl == Url("ex.com", << >>, NCss)

DPngUrl == Url("ex.com", << >>, DPng)

XCssUrl == Url("ex.com", << >>, XCss)

MCssUrl == Url("ex.com", << >>, MCss)

OCssUrl == Url("ex.com", << >>, OCss)

\* the url() entries of the stylesheets the server serves
CssRefsOf(u) ==
    IF u = SCssUrl THEN <<RootRef(<< >>, BgJpg)>>
    ELSE IF u = TCssUrl THEN <<RelRef(<< >>, FWoff), Url("cdn.com", << >>, CPng), DataRef>>
    ELSE IF u = ICssUrl THEN <<RootRef(<< >>, NCss)>>
    ELSE IF u = NCssUrl THEN <<RootRef(<< >>, DPng)>>
    ELSE IF u = XCssUrl THEN <<RelRef(<< >>, XCss)>>
    ELSE IF u = MCssUrl THEN <<RelRef(<< >>, OCss)>>
    ELSE IF u = OCssUrl THEN <<RootRef(<< >>, MCss)>>
    ELSE << >>

\* the body the server sends for URL u
ServerBody(u) == [type |-> IF EndsWith(u.file, <<".","c","s","s">>) THEN "css" ELSE "bin",
                  refs |-> CssRefsOf(u), src |-> u]

\* a file that was opened for writing and not written completely
PartialBody(u) == [type |-> "partial", refs |-> << >>, src |-> u]

\* str(e) of the exceptions of the environment
ErrMkdir == "Permission denied"

ErrHttp == "404 Client Error"

ErrWrite == "No space left on device"

ErrSchema == "No connection adapters were found"

\* the last path segments of the URLs and of the data: URI of the site
\* names given to update_css_paths called on its own: with an encoded space
\* inside, with an encoded space at the end, without extension
CssNames == {APng, FWoff, <<"a","%","2","0","b",".","p","n","g">>,
             <<"a",".","p","n","g","%","2","0">>, <<"f">>}

FileNames == {SCss, TCss, BgJpg, APng, BPng, CPng, AppJs, FWoff, ICss, NCss, DPng, XCss,
              MCss, OCss, << >>, DataRef.file}
             \cup CssNames \cup {path_of_url(Url("", << >>, n)).name : n \in CssNames}

\* url_to_local_path reads of the URL only the last segment of its path: its
\* values for the URLs of the site, computed once
local_path_by_name == [file \in FileNames |-> path_of_url(Url("", << >>, file))]

\* a mapping that numbers the files by the downloads made so far
url_to_local_path_numbered(url) ==
    [local_path_by_name[url.file] EXCEPT
        !.name = IF downloaded_files = {} THEN @ ELSE <<"1", "_">> \o @]

\* url_to_local_path(url, site_output_dir), as a path below site_output_dir
url_to_local_path(url) == local_path_by_name[url.file]

\* ------------------------------------------------------------------------
\* Extraction and rewriting
\* ------------------------------------------------------------------------
extract_assets_from_html(soup_, base_url) ==
    LET J(r) == urljoin(base_url, r) IN
    [css |-> MapSeq(soup_.css, J),
     js |-> MapSeq(soup_.js, J),
     images |-> MapSeq(soup_.img, J) \o MapSeq(soup_.bg, J) \o MapSeq(soup_.icon, J),
     fonts |-> << >>,
     other |-> << >>]

\* a replace_url that skips only absolute http(s) URLs
IsSkippedInCss_http_only(ref) == ref.kind = "abs"

\* "if not url.startswith(('data:', 'http://', 'https://'))" of replace_url
IsSkippedInCss(ref) == ref.kind \in {"data", "abs"}

\* an extraction that also follows the stylesheets named in url() and
\* collects what they reference
RECURSIVE extract_css_assets_deep(_, _)
extract_css_assets_deep(css_content, base_url) ==
    IF css_content = << >> THEN << >>
    ELSE LET m == Head(css_content)
             rest == extract_css_assets_deep(Tail(css_content), base_url)
             u == urljoin(base_url, m)
             nested == IF m.kind # "data" /\ EndsWith(u.file, <<".","c","s","s">>)
                       THEN [i \in DOMAIN CssRefsOf(u) |-> urljoin(u, CssRefsOf(u)[i])]
                       ELSE << >>
         IN  IF ~ m.kind \in {"data", "abs"} THEN <<u>> \o nested \o rest
             ELSE IF m.kind = "abs" THEN <<m>> \o nested \o rest
             ELSE rest

\* the url() targets of a stylesheet: data: URIs dropped, relative references
\* joined with the URL of the stylesheet, absolute http(s) URLs as they are
RECURSIVE extract_css_assets(_, _)
extract_css_assets(css_content, base_url) ==
    IF css_content = << >> THEN << >>
    ELSE LET m == Head(css_content)
             rest == extract_css_assets(Tail(css_content), base_url)
         IN  IF ~ m.kind \in {"data", "abs"} THEN <<urljoin(base_url, m)>> \o rest
             ELSE IF m.kind = "abs" THEN <<m>> \o rest
             ELSE rest

\* an attribute that is rewritten only when its asset was downloaded
html_local_ref_if_downloaded(base_url, ref) ==
    IF urljoin(base_url, ref) \in downloaded_files
    THEN relpath_from_output_dir(url_to_local_path(urljoin(base_url, ref)))
    ELSE ref

\* the value update_html_paths stores in an attribute
html_local_ref(base_url, ref) == relpath_from_output_dir(url_to_local_path(urljoin(base_url, ref)))

update_html_paths(soup_, base_url) ==
    LET L(r) == html_local_ref(base_url, r) IN
    [css |-> MapSeq(soup_.css, L),
     js |-> MapSeq(soup_.js, L),
     img |-> MapSeq(soup_.img, L),
     bg |-> soup_.bg,
     icon |-> MapSeq(soup_.icon, L)]

\* replace_url of update_css_paths
replace_url(base_url, ref) ==
    IF ~ IsSkippedInCss(ref)
    THEN relpath_from_output_dir(url_to_local_path(urljoin(base_url, ref)))
    ELSE ref

update_css_paths(css_content, base_url) ==
    LET R(r) == replace_url(base_url, r) IN MapSeq(css_content, R)

\* ------------------------------------------------------------------------
\* Initial state
\* ------------------------------------------------------------------------
NoUrl == [kind |-> "none", host |-> "", dirs |-> << >>, file |-> << >>]

NoPath == [dir |-> << >>, name |-> << >>]

NoAssets == [css |-> << >>, js |-> << >>, images |-> << >>, fonts |-> << >>, other |-> << >>]

NoCall == [call |-> 0, url |-> NoUrl, path |-> NoPath, phase |-> "none", attempt |-> 0,
           gets |-> 0, oks |-> 0, sleeps |-> 0, slept |-> 0, ret |-> "none"]

NoSan == [arg |-> << >>, out |-> << >>, called |-> FALSE]

NoPm == [arg |-> << >>, out |-> NoPath, called |-> FALSE]

NoCu == [arg |-> << >>, base |-> NoUrl, once |-> << >>, twice |-> << >>, called |-> 0]

\* DNSChecker.__init__: the six fallback servers, the default number of tries
\* and the resolver with the name servers of the system
fallback_dns_servers == <<"8.8.8.8", "8.8.4.4", "1.1.1.1", "1.0.0.1",
                          "208.67.222.222", "208.67.220.220">>

dns_max_retries == 3

\* the DNSChecker outside any call of resolve_with_retry: nameservers is
\* self.resolver.nameservers and error_log the length of self.error_log; the
\* other fields are the locals and the history of the current call
NoDns == [pc |-> "idle", max_retries |-> 0, attempt |-> 0, fb |-> 1,
          nameservers |-> <<"127.0.0.53">>, original_nameservers |-> << >>,
          entry |-> << >>, queried |-> << >>, error_log |-> 0, ret |-> "none",
          calls |-> 0]

NoResult == [kind |-> "unset", total_assets |-> 0, downloaded |-> 0, failed |-> 0]

NoInfo == [written |-> FALSE, total_assets |-> 0, downloaded |-> 0, failed |-> 0, entries |-> << >>]

\* hist.gets[u]    requests sent over the network for u by download_file
\* hist.starts[u]  downloads started for u (calls that passed the first check)
\* hist.fails[u]   downloads of u that ended in failure
\* hist.saved[u]   the path the body of u was saved to
\* hist.rewritten  stylesheets on disk whose url() entries were rewritten:
\*                  path -> [base, orig]
\* hist.root_gets  requests issued for the root document
\* hist.scans      the stylesheets scanned and rewritten, in order: [base, path, refs]
\* hist.css_errors  the stylesheets whose processing raised, in order:
\*                  [path, stage, base, refs], refs being what was scanned
\* hist.html_rewrites  how often index.html was rewritten and written
\* hist.page       the root document the site served (a site serves one)
\* hist.runs       calls of clone_website on this WebCloner, this one included
\* hist.abort      why clone_website returned None: "mkdir", "root" or "write"
NoHist == [gets |-> << >>, starts |-> << >>, fails |-> << >>, saved |-> << >>,
           rewritten |-> << >>, root_gets |-> 0, scans |-> << >>, html_rewrites |-> 0,
           abort |-> "", runs |-> 1, page |-> EmptySoup, css_errors |-> << >>]

Count(f, u) == IF u \in DOMAIN f THEN f[u] ELSE 0

Bump(f, u) == Put(f, u, Count(f, u) + 1)

IndexPath == [dir |-> << >>, name |-> <<"i","n","d","e","x",".","h","t","m","l">>]

InfoPath == [dir |-> << >>, name |-> <<"c","l","o","n","e","_","i","n","f","o",".","m","d">>]

Init ==
    /\ pc = "start"
    /\ site_dir = FALSE
    /\ soup = EmptySoup
    /\ assets = NoAssets
    /\ total_assets = 0
    /\ css_idx = 1
    /\ js_idx = 1
    /\ img_todo = {}
    /\ css_assets = << >>
    /\ downloaded_files = {}
    /\ failed_downloads = << >>
    /\ fs = << >>
    /\ dl = NoCall
    /\ result = NoResult
    /\ info = NoInfo
    /\ faults = 0
    /\ hist = NoHist
    /\ san = NoSan
    /\ pm = NoPm
    /\ cu = NoCu
    /\ dns = NoDns

CanFail == faults < MaxFaults

\* ------------------------------------------------------------------------
\* clone_website, first part: output directory and root document
\* ------------------------------------------------------------------------
\* os.makedirs(site_output_dir, exist_ok=True)
MakeSiteDir ==
    /\ pc = "start"
    /\ \/ /\ site_dir' = TRUE
          /\ pc' = "fetch_root"
          /\ UNCHANGED <<result, faults, hist>>
       \/ /\ CanFail
          /\ faults' = faults + 1
          /\ pc' = "failed"
          /\ result' = [NoResult EXCEPT !.kind = "None"]
          /\ hist' = [hist EXCEPT !.abort = "mkdir"]
          /\ UNCHANGED site_dir
    /\ UNCHANGED <<soup, assets, total_assets, css_idx, js_idx, img_todo, css_assets,
                   downloaded_files, failed_downloads, fs, dl, info>>
    /\ UNCHANGED calls

SumLens(a) == Len(a.css) + Len(a.js) + Len(a.images) + Len(a.fonts) + Len(a.other)

\* session.get(url) of the root document, raise_for_status, parse, extract
FetchRoot ==
    /\ pc = "fetch_root"
    /\ \/ \E page \in Pages :
            /\ hist.page \in {EmptySoup, page}
            /\ soup' = page
            /\ assets' = extract_assets_from_html(page, RootUrl)
            /\ total_assets' = SumLens(extract_assets_from_html(page, RootUrl))
            /\ pc' = "css"
            /\ hist' = [hist EXCEPT !.root_gets = @ + 1, !.page = page]
            /\ UNCHANGED <<result, faults>>
       \/ /\ CanFail
          /\ faults' = faults + 1
          /\ pc' = "failed"
          /\ result' = [NoResult EXCEPT !.kind = "None"]
          /\ hist' = [hist EXCEPT !.root_gets = @ + 1, !.abort = "root"]
          /\ UNCHANGED <<soup, assets, total_assets>>
    /\ UNCHANGED <<site_dir, css_idx, js_idx, img_todo, css_assets,
                   downloaded_files, failed_downloads, fs, dl, info>>
    /\ UNCHANGED calls

\* ------------------------------------------------------------------------
\* download_file
\*   dl.gets     calls of session.get made by the current call
\*   dl.oks      of these, the attempts that completed
\*   dl.sleeps   time.sleep(1) calls between attempts, dl.slept their sum
\* ------------------------------------------------------------------------
\* every download, of whatever loop, handed to the stylesheet scan
RetPc_scan_every_download(phase) == "css_ret"

\* where download_file returns to: the body of the "if" of the stylesheet
\* loop, or the next round of the script or image loop
RetPc(phase) == IF phase = "css" THEN "css_ret" ELSE phase

\* download_file without its first check
already_downloaded_never(url) == FALSE

\* if url in self.downloaded_files: return True
already_downloaded(url) == url \in downloaded_files

\* the retry loop giving up one attempt late
is_last_attempt_off_by_one(attempt) == attempt = max_retries

\* if attempt == self.max_retries - 1
is_last_attempt(attempt) == attempt = max_retries - 1

\* a failure record that drops the text of the exception
failure_record_no_text(url, e) == [url |-> url, error |-> ""]

\* the record download_file appends on failure
failure_record(url, e) == [url |-> url, error |-> e]

\* the failure recorded by the inner handler and again by the outer one
append_failure_twice(fd, url, e) == Append(Append(fd, failure_record(url, e)), failure_record(url, e))

\* self.failed_downloads.append({'url': url, 'error': str(e)})
append_failure(fd, url, e) == Append(fd, failure_record(url, e))

\* download_file up to the first request: the check of downloaded_files and
\* os.makedirs of the parent directory
call_download_file(url, local_path, phase) ==
    LET c == [NoCall EXCEPT !.call = dl.call + 1, !.url = url, !.path = local_path,
                            !.phase = phase]
    IN
    IF already_downloaded(url)
    THEN /\ dl' = [c EXCEPT !.ret = "True"]
         /\ pc' = RetPc(phase)
         /\ UNCHANGED <<failed_downloads, faults, hist>>
    ELSE \/ /\ dl' = [c EXCEPT !.ret = "running"]
            /\ pc' = "attempt"
            /\ hist' = [hist EXCEPT !.starts = Bump(@, url)]
            /\ UNCHANGED <<failed_downloads, faults>>
         \/ /\ CanFail
            /\ faults' = faults + 1
            /\ dl' = [c EXCEPT !.ret = "False"]
            /\ failed_downloads' = append_failure(failed_downloads, url, ErrMkdir)
            /\ pc' = RetPc(phase)
            /\ hist' = [hist EXCEPT !.starts = Bump(@, url), !.fails = Bump(@, url)]

\* the outcomes one pass of the retry loop can have
AttemptOutcomes(url) ==
    IF url.kind = "data" THEN {"schema"}
    ELSE {"ok"} \cup (IF CanFail THEN {"http", "write"} ELSE {})

ErrorText(o) == IF o = "http" THEN ErrHttp ELSE IF o = "write" THEN ErrWrite ELSE ErrSchema

\* one pass of the retry loop: request, raise_for_status, write the body
Attempt ==
    /\ pc = "attempt"
    /\ \E o \in AttemptOutcomes(dl.url) :
         LET sent == o # "schema"
             d1 == [dl EXCEPT !.gets = @ + 1]
             h1 == IF sent THEN [hist EXCEPT !.gets = Bump(@, dl.url)] ELSE hist
         IN
         IF o = "ok"
         THEN /\ fs' = Put(fs, dl.path, ServerBody(dl.url))
              /\ downloaded_files' = downloaded_files \cup {dl.url}
              /\ dl' = [d1 EXCEPT !.oks = @ + 1, !.ret = "True"]
              /\ hist' = [h1 EXCEPT !.saved = Put(@, dl.url, dl.path)]
              /\ pc' = RetPc(dl.phase)
              /\ UNCHANGED <<failed_downloads, faults>>
         ELSE /\ fs' = IF o = "write" THEN Put(fs, dl.path, PartialBody(dl.url)) ELSE fs
              /\ faults' = faults + (IF o = "schema" THEN 0 ELSE 1)
              /\ UNCHANGED downloaded_files
              /\ IF is_last_attempt(dl.attempt)
                 THEN /\ failed_downloads' = append_failure(failed_downloads, dl.url, ErrorText(o))
                      /\ dl' = [d1 EXCEPT !.ret = "False"]
                      /\ hist' = [h1 EXCEPT !.fails = Bump(@, dl.url)]
                      /\ pc' = RetPc(dl.phase)
                 ELSE /\ dl' = [d1 EXCEPT !.attempt = @ + 1, !.sleeps = @ + 1,
                                         !.slept = @ + BackoffSecs]
                      /\ hist' = h1
                      /\ UNCHANGED <<failed_downloads, pc>>
    /\ UNCHANGED <<site_dir, soup, assets, total_assets, css_idx, js_idx, img_todo, css_assets,
                   result, info>>
    /\ UNCHANGED calls

\* ------------------------------------------------------------------------
\* clone_website, second part: the three download loops
\* ------------------------------------------------------------------------
\* for css_url in assets['css']: download_file(css_url, url_to_local_path(css_url))
CssLoop ==
    /\ pc = "css"
    /\ css_idx <= Len(assets.css)
    /\ call_download_file(assets.css[css_idx], url_to_local_path(assets.css[css_idx]), "css")
    /\ UNCHANGED <<site_dir, soup, assets, total_assets, css_idx, js_idx, img_todo, css_assets,
                   downloaded_files, fs, result, info>>
    /\ UNCHANGED calls

\* "except Exception as e: print(...)" inside the stylesheet loop: the loop
\* goes on with the next stylesheet
after_css_error_abort == "failed"
after_css_error == "css"

\* the body of "if self.download_file(css_url, ...)": read the stylesheet,
\* collect its url() entries, rewrite them and write the stylesheet back
CssProcess ==
    /\ pc = "css_ret"
    /\ LET css_url == dl.url
           local_path == dl.path
       IN
       IF dl.ret = "True" /\ local_path \in DOMAIN fs
       THEN \/ LET css_content == fs[local_path].refs IN
               /\ css_assets' = css_assets \o extract_css_assets(css_content, css_url)
               /\ fs' = Put(fs, local_path,
                            [fs[local_path] EXCEPT !.refs = update_css_paths(css_content, css_url)])
               /\ hist' = [hist EXCEPT
                            !.rewritten = IF local_path \in DOMAIN @ THEN @
                                          ELSE Put(@, local_path,
                                                   [base |-> css_url, orig |-> css_content]),
                            !.scans = Append(@, [base |-> css_url, path |-> local_path,
                                                 refs |-> css_content])]
               /\ css_idx' = css_idx + 1
               /\ pc' = "css"
               /\ UNCHANGED <<faults, result>>
            \/ \* an exception inside the try: reading or decoding the file
               \* ("read"), update_css_paths or the open for writing
               \* ("rewrite"), or f.write after the open truncated the file
               \* ("write"); css_assets was extended before the last two
               \E stage \in {"read", "rewrite", "write"} :
                   LET css_content == fs[local_path].refs IN
                   /\ CanFail
                   /\ faults' = faults + 1
                   /\ pc' = after_css_error
                   /\ css_idx' = IF after_css_error = "css" THEN css_idx + 1 ELSE css_idx
                   /\ result' = IF after_css_error = "css" THEN result
                                 ELSE [NoResult EXCEPT !.kind = "None"]
                   /\ hist' = IF after_css_error = "css"
                              THEN [hist EXCEPT
                                      !.rewritten = IF stage = "write"
                                                    THEN [q \in DOMAIN @ \ {local_path} |-> @[q]]
                                                    ELSE @,
                                      !.css_errors =
                                        Append(@, [path |-> local_path, stage |-> stage,
                                                   base |-> css_url,
                                                   refs |-> IF stage = "read" THEN << >>
                                                            ELSE css_content])]
                              ELSE [hist EXCEPT !.abort = "css"]
                   /\ css_assets' = IF stage = "read" THEN css_assets
                                     ELSE css_assets \o extract_css_assets(css_content, css_url)
                   /\ fs' = IF stage = "write"
                             THEN Put(fs, local_path, PartialBody(fs[local_path].src))
                             ELSE fs
       ELSE /\ css_idx' = css_idx + 1
            /\ pc' = "css"
            /\ UNCHANGED <<css_assets, fs, hist, faults, result>>
    /\ UNCHANGED <<site_dir, soup, assets, total_assets, js_idx, img_todo,
                   downloaded_files, failed_downloads, dl, info>>
    /\ UNCHANGED calls

CssLoopEnd ==
    /\ pc = "css"
    /\ css_idx > Len(assets.css)
    /\ pc' = "js"
    /\ UNCHANGED <<site_dir, soup, assets, total_assets, css_idx, js_idx, img_todo, css_assets,
                   downloaded_files, failed_downloads, fs, dl, result, info, faults, hist>>
    /\ UNCHANGED calls

\* for js_url in assets['js']: download_file(js_url, url_to_local_path(js_url))
JsLoop ==
    /\ pc = "js"
    /\ js_idx <= Len(assets.js)
    /\ call_download_file(assets.js[js_idx], url_to_local_path(assets.js[js_idx]), "js")
    /\ js_idx' = js_idx + 1
    /\ UNCHANGED <<site_dir, soup, assets, total_assets, css_idx, img_todo, css_assets,
                   downloaded_files, fs, result, info>>
    /\ UNCHANGED calls

\* all_images = assets['images'] + css_assets; iterate over set(all_images)
JsLoopEnd ==
    /\ pc = "js"
    /\ js_idx > Len(assets.js)
    /\ img_todo' = SeqRange(assets.images \o css_assets)
    /\ pc' = "img"
    /\ UNCHANGED <<site_dir, soup, assets, total_assets, css_idx, js_idx, css_assets,
                   downloaded_files, failed_downloads, fs, dl, result, info, faults, hist>>
    /\ UNCHANGED calls

\* for img_url in set(all_images): download_file(img_url, url_to_local_path(img_url))
ImgLoop ==
    /\ pc = "img"
    /\ \E img_url \in img_todo :
         /\ call_download_file(img_url, url_to_local_path(img_url), "img")
         /\ img_todo' = img_todo \ {img_url}
    /\ UNCHANGED <<site_dir, soup, assets, total_assets, css_idx, js_idx, css_assets,
                   downloaded_files, fs, result, info>>
    /\ UNCHANGED calls

ImgLoopEnd ==
    /\ pc = "img"
    /\ img_todo = {}
    /\ pc' = "rewrite"
    /\ UNCHANGED <<site_dir, soup, assets, total_assets, css_idx, js_idx, img_todo, css_assets,
                   downloaded_files, failed_downloads, fs, dl, result, info, faults, hist>>
    /\ UNCHANGED calls

\* ------------------------------------------------------------------------
\* clone_website, third part: rewrite index.html, write clone_info.md
\* ------------------------------------------------------------------------
\* update_html_paths and the write of index.html
RewriteHtml ==
    /\ pc = "rewrite"
    /\ soup' = update_html_paths(soup, RootUrl)
    /\ \/ /\ fs' = Put(fs, IndexPath, [type |-> "html", refs |-> << >>, src |-> RootUrl])
          /\ pc' = "info"
          /\ hist' = [hist EXCEPT !.html_rewrites = @ + 1]
          /\ UNCHANGED <<result, faults>>
       \/ \* open(index_path, 'w') raises: the outer handler returns None
          /\ CanFail
          /\ faults' = faults + 1
          /\ pc' = "failed"
          /\ result' = [NoResult EXCEPT !.kind = "None"]
          /\ hist' = [hist EXCEPT !.abort = "write"]
          /\ UNCHANGED fs
    /\ UNCHANGED <<site_dir, assets, total_assets, css_idx, js_idx, img_todo, css_assets,
                   downloaded_files, failed_downloads, dl, info>>
    /\ UNCHANGED calls

\* create_info_file and the return of the result
create_info_file ==
    /\ pc = "info"
    /\ \/ /\ info' = [written |-> TRUE, total_assets |-> total_assets,
                      downloaded |-> Cardinality(downloaded_files),
                      failed |-> Len(failed_downloads),
                      entries |-> failed_downloads]
          /\ fs' = Put(fs, InfoPath, [type |-> "info", refs |-> << >>, src |-> RootUrl])
          /\ result' = [kind |-> "dict", total_assets |-> total_assets,
                        downloaded |-> Cardinality(downloaded_files),
                        failed |-> Len(failed_downloads)]
          /\ pc' = "done"
          /\ UNCHANGED <<faults, hist>>
       \/ \* open(info_path, 'w') raises: the outer handler returns None
          /\ CanFail
          /\ faults' = faults + 1
          /\ pc' = "failed"
          /\ result' = [NoResult EXCEPT !.kind = "None"]
          /\ hist' = [hist EXCEPT !.abort = "write"]
          /\ UNCHANGED <<info, fs>>
    /\ UNCHANGED <<site_dir, soup, assets, total_assets, css_idx, js_idx, img_todo, css_assets,
                   downloaded_files, failed_downloads, dl>>
    /\ UNCHANGED calls

Next ==
    \/ MakeSiteDir
    \/ FetchRoot
    \/ CssLoop
    \/ CssProcess
    \/ CssLoopEnd
    \/ JsLoop
    \/ JsLoopEnd
    \/ ImgLoop
    \/ ImgLoopEnd
    \/ Attempt
    \/ RewriteHtml
    \/ create_info_file

Spec == Init /\ [][Next]_vars

\* clone_website is one sequential thread and every request carries a
\* timeout: a step that can be taken is taken
FairSpec == Init /\ [][Next]_vars /\ WF_vars(Next)

TypeOK ==
    /\ pc \in {"start", "fetch_root", "css", "css_ret", "js", "img", "attempt", "rewrite",
               "info", "done", "failed"}
    /\ dl.ret \in {"none", "running", "True", "False"}
    /\ faults \in 0..MaxFaults
    /\ hist.abort \in {"", "mkdir", "root", "write"}

\* ------------------------------------------------------------------------
\* clone_website called again on the same WebCloner
\* ------------------------------------------------------------------------
\* the locals of clone_website start afresh; downloaded_files and
\* failed_downloads are attributes set in __init__ only and the files of the
\* output directory stay; the history is that of the current run
clone_website_again ==
    /\ pc \in {"done", "failed"}
    /\ hist.runs < MaxRuns
    /\ pc' = "start"
    /\ soup' = EmptySoup
    /\ assets' = NoAssets
    /\ total_assets' = 0
    /\ css_idx' = 1
    /\ js_idx' = 1
    /\ img_todo' = {}
    /\ css_assets' = << >>
    /\ dl' = NoCall
    /\ result' = NoResult
    /\ info' = NoInfo
    /\ hist' = [NoHist EXCEPT !.runs = hist.runs + 1, !.page = hist.page]
    /\ UNCHANGED <<site_dir, downloaded_files, failed_downloads, fs, faults>>
    /\ UNCHANGED calls

NextReuse == Next \/ clone_website_again

SpecReuse == Init /\ [][NextReuse]_vars

\* ------------------------------------------------------------------------
\* sanitize_filename called on its own
\* ------------------------------------------------------------------------
Rep(c, n) == [i \in 1..n |-> c]

\* lengths of the stem of the names passed in: short ones, the lengths around
\* the limit, a long one
StemLens == {1, 100} \cup ((MaxNameLen - 5)..(MaxNameLen + 1)) \cup {MaxStem}

\* extensions of the names passed in: none, usual ones, long ones
Exts == {<< >>, <<".","p","n","g">>, <<".","w","o","f","f","2">>}
        \cup {<<".">> \o Rep("b", n) : n \in {MaxNameLen - 2, MaxNameLen - 1, MaxNameLen, MaxExt}}

\* what the names passed in start with: nothing, a character strip removes,
\* a character the substitution replaces
Prefixes == {<< >>, <<" ">>, <<"?">>}

\* names made of the characters strip removes and the substitution replaces,
\* and a long name with a space where the cut falls
EdgeNames == {<< >>, <<".",".",".">>, <<" ","."," ">>, <<"<",">",":","\"","/","\\","|","?","*">>,
              <<".",".","a",".","p","n","g",".","."," ">>, <<"a","|","b",".","j","s">>,
              Rep("a", MaxNameLen - 1) \o <<" ">> \o Rep("b", 5)}

SanitizeInputs == {p \o Rep("a", k) \o e : p \in Prefixes, k \in StemLens, e \in Exts}
                  \cup EdgeNames

InitSanitize ==
    /\ pc = "start"
    /\ site_dir = FALSE
    /\ soup = EmptySoup
    /\ assets = NoAssets
    /\ total_assets = 0
    /\ css_idx = 1
    /\ js_idx = 1
    /\ img_todo = {}
    /\ css_assets = << >>
    /\ downloaded_files = {}
    /\ failed_downloads = << >>
    /\ fs = << >>
    /\ dl = NoCall
    /\ result = NoResult
    /\ info = NoInfo
    /\ faults = 0
    /\ hist = NoHist
    /\ \E name \in SanitizeInputs : san = [NoSan EXCEPT !.arg = name]
    /\ pm = NoPm
    /\ cu = NoCu
    /\ dns = NoDns

\* filename = self.sanitize_filename(filename)
call_sanitize_filename ==
    /\ ~ san.called
    /\ san' = [san EXCEPT !.out = sanitize_filename(san.arg), !.called = TRUE]
    /\ UNCHANGED cloner
    /\ UNCHANGED <<pm, cu, dns>>

SpecSanitize == InitSanitize /\ [][call_sanitize_filename]_vars

\* ------------------------------------------------------------------------
\* url_to_local_path called on the text of a URL
\* ------------------------------------------------------------------------
\* the text of the last path segment of a URL with its query and fragment
UrlText(u) == u.path
              \o (IF u.query = << >> THEN << >> ELSE <<"?">> \o u.query)
              \o (IF u.fragment = << >> THEN << >> ELSE <<"#">> \o u.fragment)

FirstOf(s, cs) == IF \E i \in DOMAIN s : s[i] \in cs
                  THEN CHOOSE i \in DOMAIN s : s[i] \in cs /\ \A j \in 1..(i - 1) : s[j] \notin cs
                  ELSE Len(s) + 1

\* a parse that leaves query and fragment in the path
urlparse_path_whole(text) == text

\* urlparse(url).path: the text before the query and the fragment
urlparse_path(text) == Take(text, FirstOf(text, {"?", "#"}) - 1)

PathStems == {<< >>, <<"a">>, <<"a","%","2","0","b">>, <<"a",".","c","s","s",".","b">>}

PathExts == CssExts \cup JsExts \cup ImageExts \cup FontExts
            \cup {<< >>, <<".","t","x","t">>, <<".","C","S","S">>, <<".","c","s","s","%","2","0">>,
                  <<".","m","a","p">>, <<"c","s","s">>}

PathQueries == {<< >>, <<"v","=","1",".","c","s","s">>, <<"f","=","x",".","p","n","g">>}

PathFragments == {<< >>, <<"x",".","j","s">>}

PathInputs == {[path |-> st \o e, query |-> q, fragment |-> f] :
                 st \in PathStems, e \in PathExts, q \in PathQueries, f \in PathFragments}

InitPath ==
    /\ pc = "start"
    /\ site_dir = FALSE
    /\ soup = EmptySoup
    /\ assets = NoAssets
    /\ total_assets = 0
    /\ css_idx = 1
    /\ js_idx = 1
    /\ img_todo = {}
    /\ css_assets = << >>
    /\ downloaded_files = {}
    /\ failed_downloads = << >>
    /\ fs = << >>
    /\ dl = NoCall
    /\ result = NoResult
    /\ info = NoInfo
    /\ faults = 0
    /\ hist = NoHist
    /\ san = NoSan
    /\ \E u \in PathInputs : pm = [NoPm EXCEPT !.arg = u]
    /\ cu = NoCu
    /\ dns = NoDns

\* local_path = self.url_to_local_path(url, site_output_dir)
call_url_to_local_path ==
    /\ ~ pm.called
    /\ pm' = [pm EXCEPT !.out = path_of_url(Url("ex.com", << >>, urlparse_path(UrlText(pm.arg)))),
                        !.called = TRUE]
    /\ UNCHANGED cloner
    /\ UNCHANGED <<san, cu, dns>>

SpecPath == InitPath /\ [][call_url_to_local_path]_vars

\* ------------------------------------------------------------------------
\* update_css_paths called on its own, and again on its result
\* ------------------------------------------------------------------------
\* the url() entries of the stylesheets passed in
CssRefs ==
    {RootRef(<< >>, n) : n \in CssNames} \cup {RelRef(<< >>, n) : n \in CssNames}
    \cup {RelRef(<<"..", "img">>, n) : n \in CssNames}
    \cup {DataRef, Url("cdn.com", << >>, APng)}

CssInputs == UNION {[1..n -> CssRefs] : n \in 1..MaxCssRefs}

InitCss ==
    /\ pc = "start"
    /\ site_dir = FALSE
    /\ soup = EmptySoup
    /\ assets = NoAssets
    /\ total_assets = 0
    /\ css_idx = 1
    /\ js_idx = 1
    /\ img_todo = {}
    /\ css_assets = << >>
    /\ downloaded_files = {}
    /\ failed_downloads = << >>
    /\ fs = << >>
    /\ dl = NoCall
    /\ result = NoResult
    /\ info = NoInfo
    /\ faults = 0
    /\ hist = NoHist
    /\ san = NoSan
    /\ pm = NoPm
    /\ \E c \in CssInputs, b \in {SCssUrl, TCssUrl} : cu = [NoCu EXCEPT !.arg = c, !.base = b]
    /\ dns = NoDns

\* updated_css = update_css_paths(css_content, css_url, site_output_dir), and
\* the same call on updated_css
call_update_css_paths ==
    /\ cu.called < 2
    /\ cu' = IF cu.called = 0
             THEN [cu EXCEPT !.once = update_css_paths(cu.arg, cu.base), !.called = 1]
             ELSE [cu EXCEPT !.twice = update_css_paths(cu.once, cu.base), !.called = 2]
    /\ UNCHANGED cloner
    /\ UNCHANGED <<san, pm, dns>>

SpecCss == InitCss /\ [][call_update_css_paths]_vars

\* ------------------------------------------------------------------------
\* DNSChecker.resolve_with_retry called on its own
\* ------------------------------------------------------------------------
\* what self.resolver.resolve does: an answer, dns.resolver.Timeout or
\* LifetimeTimeout, or another exception (NXDOMAIN, NoAnswer, NoNameservers)
ResolveOutcomes == {"answer", "timeout", "error"}

InitDns ==
    /\ pc = "start"
    /\ site_dir = FALSE
    /\ soup = EmptySoup
    /\ assets = NoAssets
    /\ total_assets = 0
    /\ css_idx = 1
    /\ js_idx = 1
    /\ img_todo = {}
    /\ css_assets = << >>
    /\ downloaded_files = {}
    /\ failed_downloads = << >>
    /\ fs = << >>
    /\ dl = NoCall
    /\ result = NoResult
    /\ info = NoInfo
    /\ faults = 0
    /\ hist = NoHist
    /\ san = NoSan
    /\ pm = NoPm
    /\ cu = NoCu
    /\ dns = NoDns

\* entry of resolve_with_retry(domain, record_type, max_retries)
call_resolve_with_retry ==
    /\ dns.pc \in {"idle", "returned", "raised"}
    /\ dns.calls < MaxDnsCalls
    /\ \E m \in {1, 2, dns_max_retries} :  \* given, or None for self.max_retries
          dns' = [dns EXCEPT !.pc = "default", !.max_retries = m, !.attempt = 0, !.fb = 1,
                             !.original_nameservers = << >>, !.entry = dns.nameservers,
                             !.queried = << >>, !.ret = "none", !.calls = @ + 1]
    /\ UNCHANGED cloner
    /\ UNCHANGED <<san, pm, cu>>

\* "raise e" of the last try that failed with another exception
after_last_error == "raised"

\* one round of "for attempt in range(max_retries)" on the default resolver
DefaultAttempt ==
    /\ dns.pc = "default"
    /\ \E o \in ResolveOutcomes :
          LET q == Append(dns.queried, dns.nameservers)
              last == ~(dns.attempt < dns.max_retries - 1)
              \* a timeout on the last try leaves the loop ("break")
              leave == IF o = "timeout" THEN "fallback" ELSE after_last_error
          IN
          dns' = IF o = "answer"
                 THEN [dns EXCEPT !.queried = q, !.pc = "returned", !.ret = "answer"]
                 ELSE IF ~last
                 THEN [dns EXCEPT !.queried = q, !.error_log = @ + 1, !.attempt = @ + 1]
                 ELSE [dns EXCEPT !.queried = q, !.error_log = @ + 1, !.pc = leave,
                                  !.ret = IF leave = "raised" THEN "raise" ELSE @,
                                  !.original_nameservers =
                                      IF leave = "fallback" THEN dns.nameservers ELSE @]
    /\ UNCHANGED cloner
    /\ UNCHANGED <<san, pm, cu>>

\* the name servers of the resolver when a fallback server answered
on_fallback_answer(d) == <<fallback_dns_servers[d.fb]>>

\* one round of "for i, dns_server in enumerate(self.fallback_dns_servers)"
FallbackAttempt ==
    /\ dns.pc = "fallback"
    /\ dns.fb <= Len(fallback_dns_servers)
    /\ \E o \in ResolveOutcomes :
          LET ns == <<fallback_dns_servers[dns.fb]>>
              q == Append(dns.queried, ns)
          IN
          dns' = IF o = "answer"
                 THEN [dns EXCEPT !.nameservers = on_fallback_answer(dns), !.queried = q,
                                  !.pc = "returned", !.ret = "answer"]
                 ELSE [dns EXCEPT !.nameservers = ns, !.queried = q,
                                  !.error_log = @ + 1, !.fb = @ + 1]
    /\ UNCHANGED cloner
    /\ UNCHANGED <<san, pm, cu>>

\* after the loop over the fallback servers: restore and return None
FallbackExhausted ==
    /\ dns.pc = "fallback"
    /\ dns.fb > Len(fallback_dns_servers)
    /\ dns' = [dns EXCEPT !.nameservers = dns.original_nameservers,
                          !.pc = "returned", !.ret = "None"]
    /\ UNCHANGED cloner
    /\ UNCHANGED <<san, pm, cu>>

NextDns ==
    \/ call_resolve_with_retry
    \/ DefaultAttempt
    \/ FallbackAttempt
    \/ FallbackExhausted

SpecDns == InitDns /\ [][NextDns]_vars

\* ------------------------------------------------------------------------
\* Observations used by the properties
\* ------------------------------------------------------------------------
\* the references of index.html, each with the URL it stood for in the root
\* document as fetched
HtmlLinks ==
    LET refs == soup.css \o soup.js \o soup.img \o soup.bg \o soup.icon
        urls == assets.css \o assets.js \o assets.images
    IN  {[url |-> urls[i], ref |-> refs[i]] : i \in DOMAIN refs}

\* of these, the references in the attributes update_html_paths visits
HtmlVisitedLinks ==
    LET refs == soup.css \o soup.js \o soup.img \o soup.icon
        urls == assets.css \o assets.js \o SubSeq(assets.images, 1, Len(soup.img))
                \o SubSeq(assets.images, Len(soup.img) + Len(soup.bg) + 1, Len(assets.images))
    IN  {[url |-> urls[i], ref |-> refs[i]] : i \in DOMAIN refs}

\* the url() entries of the rewritten stylesheet stored at p, each with the
\* URL it stood for in the stylesheet as downloaded
CssLinks(p) ==
    LET rw == hist.rewritten[p]
    IN  IF p \in DOMAIN fs /\ Len(fs[p].refs) = Len(rw.orig)
        THEN {[url |-> urljoin(rw.base, rw.orig[i]), ref |-> fs[p].refs[i]] : i \in DOMAIN rw.orig}
        ELSE {}

RewrittenCss == DOMAIN hist.rewritten

PointsTo(docdir, ref, path) == ref.kind = "rel" /\ ResolveLocal(docdir, ref) = path

FailedUrls == {u \in DOMAIN hist.fails : hist.fails[u] > 0}

FetchedUrls == DOMAIN hist.saved

ManifestUrls == {info.entries[i].url : i \in DOMAIN info.entries}

\* ------------------------------------------------------------------------
\* Properties
\* ------------------------------------------------------------------------
\* C1: after a run that returned a result, every reference to a successfully
\* downloaded asset, in index.html and in each rewritten stylesheet, is a
\* relative path that, resolved from the directory of the referencing
\* document, names the file the asset was saved to.
C1_ReferentialIntegrity ==
    pc = "done" =>
        /\ \A l \in HtmlLinks :
              l.url \in downloaded_files => PointsTo(<< >>, l.ref, hist.saved[l.url])
        /\ \A p \in RewrittenCss : \A l \in CssLinks(p) :
              l.url \in downloaded_files => PointsTo(p.dir, l.ref, hist.saved[l.url])

\* the documents of the site tree with rewritten references: the directory of
\* each and the base URL its references were resolved against
RewrittenLinks ==
    {[docdir |-> << >>, base |-> RootUrl, url |-> l.url, ref |-> l.ref] : l \in HtmlLinks}
    \cup UNION {{[docdir |-> p.dir, base |-> hist.rewritten[p].base, url |-> l.url, ref |-> l.ref]
                   : l \in CssLinks(p)} : p \in RewrittenCss}

\* C2: in the output of a run that returned a result, a reference whose asset
\* was not downloaded successfully still denotes its original remote URL.
C2_FailedKeepsRemoteUrl ==
    pc = "done" =>
        \A l \in RewrittenLinks :
            l.url \notin downloaded_files => urljoin(l.base, l.ref) = l.url

\* C2 (amended): references are rewritten whether or not the download
\* succeeded: after a run that returned a result, every stylesheet, script,
\* img and icon reference of index.html and every relative url() of a
\* rewritten stylesheet whose asset failed to download has been replaced by
\* the local path of that asset, the failure is listed in clone_info.md, and
\* no failed download aborts the run.
C2_FailedIsRewrittenToo ==
    /\ (dl.ret = "False" /\ pc = "failed") => hist.abort = "write"
    /\ pc = "done" =>
          /\ \A l \in HtmlVisitedLinks :
                l.url \notin downloaded_files =>
                    /\ l.ref = relpath_from_output_dir(url_to_local_path(l.url))
                    /\ l.url \in ManifestUrls
          /\ \A p \in RewrittenCss : \A i \in DOMAIN hist.rewritten[p].orig :
                LET o == hist.rewritten[p].orig[i]
                    u == urljoin(hist.rewritten[p].base, o)
                IN  (o.kind \in {"root", "rel"} /\ u \notin downloaded_files) =>
                        /\ fs[p].refs[i] = relpath_from_output_dir(url_to_local_path(u))
                        /\ u \in ManifestUrls

\* C2 witness: a finished run in which an <img> whose download failed is
\* referenced by a local path in index.html.
C2_Witness ==
    /\ pc = "done"
    /\ \E l \in HtmlVisitedLinks :
          /\ l.url \in FailedUrls
          /\ l.url \notin downloaded_files
          /\ l.ref.kind = "rel"
          /\ ResolveLocal(<< >>, l.ref) \notin DOMAIN fs

\* C3: once a URL is in the downloaded set, no further request is sent for it,
\* and no URL is saved more often than once.
C3_FetchedOnce ==
    [][\A u \in downloaded_files :
          /\ Count(hist'.gets, u) = Count(hist.gets, u)
          /\ Count(hist'.starts, u) = Count(hist.starts, u)
          /\ hist'.saved[u] = hist.saved[u]]_vars

\* C3 witness: download_file was called for a URL that an earlier call had
\* fetched with one request, and returned True without a request.
C3_Witness ==
    /\ dl.ret = "True"
    /\ dl.gets = 0
    /\ dl.url \in downloaded_files
    /\ Count(hist.gets, dl.url) = 1
    /\ Count(hist.starts, dl.url) = 1

\* C4: a URL whose download has ended, in success or in failure, gets no
\* second download attempt in the same run.
C4_OutcomeTerminal ==
    \A u \in DOMAIN hist.starts : hist.starts[u] <= 1

\* C5: when the root document cannot be fetched, the run returns None and
\* leaves no site output directory and no file behind.
C5_NoTreeOnRootFailure ==
    hist.abort = "root" =>
        /\ result.kind = "None"
        /\ ~ site_dir
        /\ DOMAIN fs = {}

\* C6: one download_file call makes at most max_retries requests, stops at the
\* first attempt that succeeds, retries after every failed attempt but the
\* last, sleeps the fixed backoff between two consecutive attempts, and makes
\* exactly max_retries requests when every attempt fails.
C6_BoundedRetry ==
    /\ dl.gets <= max_retries
    /\ dl.oks <= 1
    /\ dl.slept = dl.sleeps * BackoffSecs
    /\ dl.ret = "running" => dl.oks = 0 /\ dl.gets < max_retries /\ dl.sleeps = dl.gets
    /\ dl.ret = "True" => dl.oks = dl.gets - dl.sleeps /\ (dl.gets > 0 => dl.oks = 1)
    /\ (dl.ret = "False" /\ dl.gets > 0) =>
           dl.oks = 0 /\ dl.gets = max_retries /\ dl.sleeps = max_retries - 1

\* C6 witness: a download that failed after max_retries requests, with a
\* backoff sleep between each two of them.
C6_Witness ==
    /\ dl.ret = "False"
    /\ dl.gets = max_retries
    /\ dl.sleeps = max_retries - 1
    /\ dl.url.kind = "abs"

ErrTexts == {ErrMkdir, ErrHttp, ErrWrite, ErrSchema}

\* C7: whenever download_file returns False it has appended exactly one
\* failure record with the URL and the error text and has not added the URL
\* to the downloaded set; any other step of a download leaves the failure list
\* alone; and no step of a download aborts the run.
C7_FailureIsReturned ==
    [][/\ (dl' # dl /\ dl'.ret = "False") =>
             /\ \E e \in ErrTexts : failed_downloads' = Append(failed_downloads, [url |-> dl'.url, error |-> e])
             /\ dl'.url \notin downloaded_files'
             /\ downloaded_files' = downloaded_files
             /\ pc' = RetPc(dl'.phase)
       /\ (dl' # dl /\ dl'.ret # "False") => failed_downloads' = failed_downloads
       /\ dl' = dl => failed_downloads' = failed_downloads
       /\ pc = "attempt" => pc' # "failed"]_vars

\* C7 witness: a download that failed while writing the file returned False
\* and its record is the last of the failure list.
C7_Witness ==
    /\ dl.ret = "False"
    /\ failed_downloads # << >>
    /\ failed_downloads[Len(failed_downloads)] = [url |-> dl.url, error |-> ErrWrite]
    /\ dl.url \notin downloaded_files

\* C8: clone_info.md has an entry with the URL and a non-empty error text for
\* every asset whose download failed in the run, and no entry for a URL
\* without a failed download.
C8_FailureTransparency ==
    info.written =>
        /\ \A u \in FailedUrls : \E i \in DOMAIN info.entries :
              info.entries[i].url = u /\ info.entries[i].error # ""
        /\ \A i \in DOMAIN info.entries :
              info.entries[i].url \in FailedUrls /\ info.entries[i].error # ""
        /\ info.entries = failed_downloads

\* C8 witness: a manifest written after one download failed and another
\* succeeded.
C8_Witness ==
    /\ info.written
    /\ Cardinality(FailedUrls) = 1
    /\ Len(info.entries) = 1
    /\ FetchedUrls # {}

\* C9: the downloaded count of the result and of the manifest is the number
\* of distinct URLs fetched in the run, the failed count the number of
\* distinct URLs whose download failed.
C9_CountsAreDistinctUrls ==
    pc = "done" =>
        /\ result.downloaded = Cardinality(FetchedUrls)
        /\ result.failed = Cardinality(FailedUrls)
        /\ info.downloaded = Cardinality(FetchedUrls)
        /\ info.failed = Cardinality(FailedUrls)

\* C10: after a run that returned a result, every local file a rewritten
\* reference of index.html or of a rewritten stylesheet points at exists in
\* the site tree or is the file of an asset listed in the failure section of
\* clone_info.md.
C10_NoDanglingUnreported ==
    pc = "done" =>
        \A l \in RewrittenLinks :
            l.ref.kind = "rel" =>
                \/ ResolveLocal(l.docdir, l.ref) \in DOMAIN fs
                \/ \E u \in ManifestUrls : url_to_local_path(u) = ResolveLocal(l.docdir, l.ref)

\* C11: a url(data:...) entry of a downloaded stylesheet is never requested,
\* never queued for download, and stands unchanged at its place in the
\* rewritten stylesheet.
C11_DataUriUntouched ==
    \A k \in DOMAIN hist.scans : \A i \in DOMAIN hist.scans[k].refs :
        LET sc == hist.scans[k]
            entry == sc.refs[i]
        IN  entry.kind = "data" =>
                /\ Count(hist.gets, entry) = 0
                /\ Count(hist.starts, entry) = 0
                /\ entry \notin SeqRange(css_assets)
                /\ sc.path \in RewrittenCss =>
                       /\ sc.path \in DOMAIN fs
                       /\ fs[sc.path].type = "css"
                       /\ Len(fs[sc.path].refs) = Len(sc.refs)
                       /\ fs[sc.path].refs[i] = entry

\* C11 witness: a finished run that rewrote a stylesheet holding a data: URI
\* next to entries that were replaced.
C11_Witness ==
    /\ pc = "done"
    /\ \E k \in DOMAIN hist.scans :
          /\ \E i \in DOMAIN hist.scans[k].refs : hist.scans[k].refs[i].kind = "data"
          /\ fs[hist.scans[k].path].refs # hist.scans[k].refs

\* C12: in a rewritten stylesheet every url() whose target was fetched in the
\* run, relative or absolute, is replaced by the local path of the target,
\* and an entry that stayed as it was is a data: URI or an absolute URL that
\* was not fetched.
C12_FetchedCssTargetsLocalised ==
    pc = "done" =>
        \A p \in RewrittenCss : \A i \in DOMAIN hist.rewritten[p].orig :
            LET o == hist.rewritten[p].orig[i]
                u == urljoin(hist.rewritten[p].base, o)
                now == fs[p].refs[i]
            IN  /\ (o.kind # "data" /\ u \in downloaded_files) =>
                       now = relpath_from_output_dir(url_to_local_path(u))
                /\ now = o =>
                       \/ o.kind = "data"
                       \/ o.kind = "abs" /\ u \notin downloaded_files

\* the paths url_to_local_path returned earlier in the run agree with the
\* path it returns now: the path each download was given, the path each
\* fetched file was saved under, the path behind each rewritten reference
C13_PathsAgree ==
    /\ dl.call > 0 => dl.path = url_to_local_path(dl.url)
    /\ \A u \in DOMAIN hist.saved : hist.saved[u] = url_to_local_path(u)
    /\ pc \in {"info", "done"} =>
          \A l \in HtmlVisitedLinks : l.ref = relpath_from_output_dir(url_to_local_path(l.url))
    /\ \A l1, l2 \in RewrittenLinks :
          (l1.url = l2.url /\ l1.ref.kind = "rel" /\ l2.ref.kind = "rel") => l1.ref = l2.ref

\* C13: url_to_local_path depends on the URL alone: the paths it returned in
\* earlier states of the cloner, before and after downloads and failures,
\* are the path it returns for the same URL in every later state, and the
\* rewriting steps, which only call url_to_local_path, leave the downloaded
\* set and the failure list as they were.
C13_PathMappingDeterministic ==
    /\ []C13_PathsAgree
    /\ [][(pc = "rewrite" \/ (pc = "css_ret" /\ fs' # fs)) =>
              /\ downloaded_files' = downloaded_files
              /\ failed_downloads' = failed_downloads]_vars

\* C13 witness: a finished run with downloads and a failure in which a URL
\* referenced by two documents got the same local path in both.
C13_Witness ==
    /\ pc = "done"
    /\ downloaded_files # {}
    /\ failed_downloads # << >>
    /\ \E l1, l2 \in RewrittenLinks :
          /\ l1.url = l2.url
          /\ l1.docdir # l2.docdir
          /\ l1.ref.kind = "rel"
          /\ l1.ref = l2.ref

\* C14: the name sanitize_filename returns has at most 200 characters and
\* ends with the extension of the name it was given.
C14_AtMost200KeepsExtension ==
    san.called =>
        /\ Len(san.out) <= MaxNameLen
        /\ EndsWith(san.out, splitext(san.arg)[2])

\* C15: every call of clone_website, also a later one on the same cloner,
\* starts with an empty downloaded set and an empty failure list.
C15_RunStartsClean ==
    pc = "start" => downloaded_files = {} /\ failed_downloads = << >>

AssetSteps == {"css", "css_ret", "js", "img", "attempt"}

C17_RootFetchRetried ==
    hist.abort = "root" => hist.root_gets = max_retries

\* the URLs whose download has ended, in success or in a failure record
Settled == downloaded_files \cup FailedUrls

\* C18: every document is rewritten at most once, a stylesheet only when the
\* downloads of the assets it references have ended, index.html only when
\* every asset download of the run has ended.
C18_RewriteAfterDownloads ==
    /\ [](\A j, k \in DOMAIN hist.scans : hist.scans[j].path = hist.scans[k].path => j = k)
    /\ [](hist.html_rewrites <= 1)
    /\ [][hist'.scans # hist.scans =>
              SeqRange(extract_css_assets(fs[dl.path].refs, dl.url)) \subseteq Settled]_vars
    /\ [][hist'.html_rewrites # hist.html_rewrites =>
              (SeqRange(assets.css) \cup SeqRange(assets.js) \cup SeqRange(assets.images)
                 \cup SeqRange(css_assets)) \subseteq Settled]_vars

\* the assets the root document references, and the targets of the url()
\* entries the scanned stylesheets held when they were read
RootAssets == SeqRange(assets.css) \cup SeqRange(assets.js) \cup SeqRange(assets.images)

ScannedTargets ==
    LET all == hist.scans \o hist.css_errors IN
    UNION {{urljoin(all[k].base, all[k].refs[i]) : i \in DOMAIN all[k].refs} : k \in DOMAIN all}

\* C19: only stylesheets linked from the root document are scanned and
\* rewritten; a stylesheet found in a url() is saved as the server sent it;
\* every download is for an asset of the root document or for a url() target
\* of a scanned stylesheet, so nothing referenced only by a stylesheet that
\* was itself found in a url() is ever requested.
C19_OneLevelOnly ==
    /\ \A k \in DOMAIN hist.scans : hist.scans[k].base \in SeqRange(assets.css)
    /\ \A p \in DOMAIN fs :
          (fs[p].type = "css" /\ fs[p].src \notin SeqRange(assets.css)) =>
              /\ fs[p].refs = CssRefsOf(fs[p].src)
              /\ p \notin RewrittenCss
    /\ DOMAIN hist.starts \subseteq RootAssets \cup ScannedTargets
    /\ DOMAIN hist.gets \subseteq RootAssets \cup ScannedTargets
    /\ css_assets # << >> => SeqRange(css_assets) \subseteq ScannedTargets

\* C19 witness: a finished run that downloaded a stylesheet named in the
\* url() of a linked stylesheet, left it as served, and never asked for the
\* image it references.
C19_Witness ==
    /\ pc = "done"
    /\ NCssUrl \in downloaded_files
    /\ url_to_local_path(NCssUrl) \in DOMAIN fs
    /\ fs[url_to_local_path(NCssUrl)].refs = <<RootRef(<< >>, DPng)>>
    /\ Count(hist.starts, DPngUrl) = 0
    /\ DPngUrl \notin downloaded_files

RECURSIVE SumOver(_, _)
SumOver(f, S) == IF S = {} THEN 0
                 ELSE LET x == CHOOSE y \in S : TRUE IN f[x] + SumOver(f, S \ {x})

\* requests sent for assets so far in the run
TotalRequests == SumOver(hist.gets, DOMAIN hist.gets)

\* rounds the three download loops make: one per linked stylesheet, one per
\* script, one per distinct image or url() target
LoopRounds == Len(assets.css) + Len(assets.js)
              + Cardinality(SeqRange(assets.images) \cup SeqRange(css_assets))

\* C20: every run reaches DONE or FAILED, also for a stylesheet whose url()
\* points at itself and for two stylesheets that reference each other; it
\* calls download_file at most once per round of the three loops and sends
\* at most max_retries requests per call.
C20_RunTerminates ==
    /\ <>(pc \in {"done", "failed"})
    /\ [](dl.call <= LoopRounds)
    /\ [](TotalRequests <= max_retries * dl.call)

\* C20 witness: finished runs over the self-referential stylesheet and over
\* the two stylesheets that reference each other, each stylesheet downloaded
\* and scanned.
C20_Witness ==
    /\ pc = "done"
    /\ \/ /\ hist.page = PageSelf
          /\ XCssUrl \in downloaded_files
          /\ Len(hist.scans) = 1
       \/ /\ hist.page = PageMutual
          /\ {MCssUrl, OCssUrl} \subseteq downloaded_files
          /\ Len(hist.scans) = 2

\* the text from the last dot of a name on, nothing for a name without a dot
ExtensionOf(name) == IF HasDot(name) THEN Drop(name, LastDot(name) - 1) ELSE << >>

SubDirs == {"css", "js", "images", "fonts", "assets"}

\* C21: the directory url_to_local_path chooses is the one of the extension
\* of the percent-decoded path of the URL, whatever its query and fragment:
\* css, js, images or fonts for the listed extensions, assets for every
\* other one; and a URL with an empty last path segment is saved as
\* index.html.
C21_SubdirByExtension ==
    pm.called =>
        LET ext == ExtensionOf(unquote(pm.arg.path))
            d == pm.out.dir
        IN  /\ Len(d) = 1 /\ d[1] \in SubDirs
            /\ d[1] = "css" <=> ext \in CssExts
            /\ d[1] = "js" <=> ext \in JsExts
            /\ d[1] = "images" <=> ext \in ImageExts
            /\ d[1] = "fonts" <=> ext \in FontExts
            /\ pm.arg.path = << >> => pm.out.name = <<"i","n","d","e","x",".","h","t","m","l">>

\* C21 witness: an image URL whose query string ends in .css was mapped to
\* images/.
C21_Witness ==
    /\ pm.called
    /\ pm.arg.path = <<"a",".","p","n","g">>
    /\ pm.arg.query = <<"v","=","1",".","c","s","s">>
    /\ pm.out = [dir |-> <<"images">>, name |-> <<"a",".","p","n","g">>]

\* C22: the name sanitize_filename returns is not empty, holds none of the
\* characters < > : " / \ | ? *, neither begins nor ends with a dot or a
\* space, and is unnamed_file when nothing is left of the input.
C22_SafeName ==
    san.called =>
        /\ san.out # << >>
        /\ \A i \in DOMAIN san.out : san.out[i] \notin UnsafeChars
        /\ san.out[1] \notin StripChars
        /\ san.out[Len(san.out)] \notin StripChars
        /\ (\A i \in DOMAIN san.arg : san.arg[i] \in StripChars) =>
               san.out = <<"u","n","n","a","m","e","d","_","f","i","l","e">>

\* C23: when processing a downloaded stylesheet fails (reading, scanning or
\* rewriting it), the file stays on disk as it was, the stylesheet still
\* counts as downloaded and the run goes on with the next stylesheet.
C23_CssErrorKeepsFile ==
    [][Len(hist'.css_errors) > Len(hist.css_errors) =>
          /\ fs'[dl.path] = fs[dl.path]
          /\ dl.url \in downloaded_files'
          /\ pc' = "css"
          /\ result' = result]_vars

\* C24: resolve_with_retry returns an answer or None and never raises; it
\* returns None only after max_retries failed tries on the default resolver
\* and one failed try on every fallback server, in order.
C24_NeverRaises ==
    /\ dns.ret \in {"none", "answer", "None"}
    /\ dns.ret = "None" =>
          dns.queried = [i \in 1..dns.max_retries |-> dns.entry] \o
                        [i \in 1..Len(fallback_dns_servers) |-> <<fallback_dns_servers[i]>>]

\* C30: when resolve_with_retry has returned, the resolver has the name
\* servers it had when the call began.
C30_NameserversRestored ==
    dns.pc = "returned" => dns.nameservers = dns.entry

\* C25: every URL requested in a run is referenced by the root document or
\* by a fetched stylesheet as downloaded, and no stylesheet is scanned after
\* it was rewritten, also when it is linked twice.
C25_OnlyReferencedRequested ==
    /\ \A u \in DOMAIN hist.gets :
          \/ u \in RootAssets
          \/ \E c \in FetchedUrls : \E i \in DOMAIN CssRefsOf(c) : u = urljoin(c, CssRefsOf(c)[i])
    /\ \A k \in DOMAIN hist.scans : hist.scans[k].refs = CssRefsOf(hist.scans[k].base)

\* C26: a data: URI that the root document holds as <img src>, as icon href
\* or as inline background-image is never requested, gets no failure record
\* and stands unchanged in the rewritten index.html.
C26_HtmlDataUriUntouched ==
    \A part \in {"img", "bg", "icon"} : \A i \in DOMAIN soup[part] :
        LET entry == hist.page[part][i] IN
        entry.kind = "data" =>
            /\ Count(hist.gets, entry) = 0
            /\ \A k \in DOMAIN failed_downloads : failed_downloads[k].url # entry
            /\ soup[part][i] = entry

\* C27: no URL of the failure list is in the downloaded set, and no URL is
\* in the failure list twice.
C27_FailedDisjointAndUnique ==
    /\ \A k \in DOMAIN failed_downloads : failed_downloads[k].url \notin downloaded_files
    /\ \A j, k \in DOMAIN failed_downloads :
          failed_downloads[j].url = failed_downloads[k].url => j = k

\* C28: rewriting a rewritten stylesheet again, with the same base URL and
\* output directory, returns it unchanged.
C28_UpdateCssPathsIdempotent ==
    cu.called = 2 => cu.twice = cu.once

\* C29: in the result of the run and in clone_info.md the downloaded count
\* plus the failed count is at most the total of assets found, and that total
\* covers every URL the run tried to download.
C29_CountsWithinTotal ==
    /\ result.kind = "dict" =>
          /\ result.downloaded + result.failed <= result.total_assets
          /\ Cardinality(DOMAIN hist.starts) <= result.total_assets
    /\ info.written => info.downloaded + info.failed <= info.total_assets

====
